---- MODULE Spec2Model ----
(***************************************************************************)
(* PredictionView: the DOMContentLoaded handler of frontend/script.js.     *)
(* One fetch of /predict, the transformation of the JSON body into table   *)
(* rows, filter options and chart data, and the two listeners (show-charts *)
(* click, drug-filter change) that the success handler registers.          *)
(*                                                                         *)
(* A response is the parsed object in Object.keys order: a sequence of     *)
(* records [drug, years, total_spending, avg_spending], drug names         *)
(* distinct.  Amounts are held in cents so that toFixed(2) is computed.    *)
(*                                                                         *)
(* The repository also holds an earlier page script (unnamed/part_000):    *)
(* the same fetch, the table rows only, no listeners.  A page runs one of  *)
(* the two scripts; which one is fixed when the page starts.               *)
(* getRandomColor is not modelled: the colours are random and no property  *)
(* below reads them.  The Chart constructor is taken to accept a canvas    *)
(* that already holds a chart.                                             *)
(***************************************************************************)
EXTENDS Integers, Sequences, FiniteSets, TLC

VARIABLES script, pc, requests, data, tableBody, drugFilter, selected, listeners,
          chartContainer, labels, datasets, totalSpendingData,
          spendingChart, barChart, pieChart, console, uncaught, clicks

vars == <<script, pc, requests, data, tableBody, drugFilter, selected, listeners,
          chartContainer, labels, datasets, totalSpendingData,
          spendingChart, barChart, pieChart, console, uncaught, clicks>>

---------------------------------------------------------------------------
(* Bounds of the model *)

MaxLen == 2

MaxDrugs == 2

MaxClicks == 2

---------------------------------------------------------------------------
(* Inputs: the responses the endpoint may serve *)

DrugNames == {"DrugA", "DrugB", "all"}

Frontend == "frontend/script.js"

Legacy == "unnamed/part_000"

(* a chart variable that has not been assigned *)
Undefined == [type |-> "undefined", labels |-> <<>>, datasets |-> <<>>]

(* data is <<>> until response.json() has fulfilled, then <<the body>> *)
NoData == <<>>

Price(drug) == CASE drug = "DrugA" -> 1000
                 [] drug = "DrugB" -> 2550
                 [] OTHER -> 405

YearAxis(n) == [i \in 1..n |-> 2019 + i]

Totals(drug, n) == [i \in 1..n |-> Price(drug) * i]

Avgs(drug, n) == [i \in 1..n |-> Price(drug) \div 2 + i]

(* lengths of years, total_spending, avg_spending: equal (well formed), or *)
(* one of the two spending arrays one element shorter or longer            *)
Shapes ==
    { s \in (0..MaxLen) \X (0..MaxLen) \X (0..MaxLen) :
        \/ s[2] = s[1] /\ s[3] - s[1] \in {-1, 0, 1}
        \/ s[3] = s[1] /\ s[2] - s[1] \in {-1, 0, 1} }

DrugSeries ==
    { [drug |-> n, years |-> YearAxis(s[1]),
       total_spending |-> Totals(n, s[2]),
       avg_spending |-> Avgs(n, s[3])] : n \in DrugNames, s \in Shapes }

Responses ==
    UNION { { r \in [1..k -> DrugSeries] :
                \A i, j \in 1..k : i # j => r[i].drug # r[j].drug } :
            k \in 0..MaxDrugs }

WellFormed(d) ==
    \A k \in 1..Len(d) : /\ Len(d[k].total_spending) = Len(d[k].years)
                         /\ Len(d[k].avg_spending) = Len(d[k].years)

---------------------------------------------------------------------------
(* Number.prototype.toFixed(2) of an amount held in cents *)

TwoDigits(n) == IF n < 10 THEN "0" \o ToString(n) ELSE ToString(n)

ToFixed2(cents) == ToString(cents \div 100) \o "." \o TwoDigits(cents % 100)

(* the <tr> built by the template literal; style.display starts as "" *)
NewRow(drug, year, total, avg) ==
    [cells |-> <<drug, ToString(year), "$" \o ToFixed2(total), "$" \o ToFixed2(avg)>>,
     display |-> ""]

---------------------------------------------------------------------------
(* The success handler: .then(data => { ... }) *)

(* arr[i].toFixed(2) throws a TypeError when arr[i] is undefined *)
ToFixedThrows(arr, i) == i > Len(arr)

(* years.forEach that stops one index early *)
RECURSIVE PopulateTableSkipsLast(_, _, _)
PopulateTableSkipsLast(d, i, body) ==
    IF i >= Len(d.years)
    THEN [tableBody |-> body, threw |-> FALSE]
    ELSE IF ToFixedThrows(d.total_spending, i) \/ ToFixedThrows(d.avg_spending, i)
         THEN [tableBody |-> body, threw |-> TRUE]
         ELSE PopulateTableSkipsLast(d, i + 1,
                  Append(body, NewRow(d.drug, d.years[i],
                                      d.total_spending[i], d.avg_spending[i])))

(* years.forEach that guards the undefined amounts: the year is skipped *)
(* and nothing is thrown                                                 *)
RECURSIVE PopulateTableLenient(_, _, _)
PopulateTableLenient(d, i, body) ==
    IF i > Len(d.years)
    THEN [tableBody |-> body, threw |-> FALSE]
    ELSE IF ToFixedThrows(d.total_spending, i) \/ ToFixedThrows(d.avg_spending, i)
         THEN PopulateTableLenient(d, i + 1, body)
         ELSE PopulateTableLenient(d, i + 1,
                  Append(body, NewRow(d.drug, d.years[i],
                                      d.total_spending[i], d.avg_spending[i])))

(* years.forEach((year, i) => ...): appends one row per year index i (1-based *)
(* here) to body; stops at the first index whose total or avg is undefined *)
RECURSIVE PopulateTable(_, _, _)
PopulateTable(d, i, body) ==
    IF i > Len(d.years)
    THEN [tableBody |-> body, threw |-> FALSE]
    ELSE IF ToFixedThrows(d.total_spending, i) \/ ToFixedThrows(d.avg_spending, i)
         THEN [tableBody |-> body, threw |-> TRUE]
         ELSE PopulateTable(d, i + 1,
                  Append(body, NewRow(d.drug, d.years[i],
                                      d.total_spending[i], d.avg_spending[i])))

(* labels = years without the index test: the last drug's years win *)
CaptureLabelsAlways(lbls, years, index) == years

(* if (index === 0) labels = years; index is 1-based here *)
CaptureLabels(lbls, years, index) == IF index = 1 THEN years ELSE lbls

(* datasets.push({label: drug, data: totalSpending, ...}) *)
PushDataset(dsets, drug, totalSpending) ==
    Append(dsets, [label |-> drug, data |-> totalSpending, fill |-> FALSE])

(* the option appended where the rows are: once more than needed *)
AppendOptionTwice(options, drug) ==
    Append(Append(options, [value |-> drug, textContent |-> drug]),
           [value |-> drug, textContent |-> drug])

(* createElement("option"); value = textContent = drug; appendChild *)
AppendOption(options, drug) ==
    Append(options, [value |-> drug, textContent |-> drug])

(* reduce((a, b) => b, init): keeps the last element instead of adding *)
RECURSIVE ReduceKeepsLast(_, _)
ReduceKeepsLast(arr, init) ==
    IF arr = <<>> THEN init ELSE ReduceKeepsLast(Tail(arr), Head(arr))

(* Array.prototype.reduce((a, b) => a + b, init) *)
RECURSIVE Reduce(_, _)
Reduce(arr, init) ==
    IF arr = <<>> THEN init ELSE Reduce(Tail(arr), init + Head(arr))

(* totalSpendingData[drug] = totalSpending.reduce((a, b) => a + b, 0) *)
Aggregate(totals, drug, totalSpending) ==
    Append(totals, [key |-> drug, value |-> Reduce(totalSpending, 0)])

(* one iteration of Object.keys(data).forEach((drug, index) => ...) *)
ProcessDrug(acc, d, index) ==
    LET lbls == CaptureLabels(acc.labels, d.years, index)
        rows == PopulateTable(d, 1, acc.tableBody)
    IN  IF rows.threw
        THEN [acc EXCEPT !.labels = lbls, !.tableBody = rows.tableBody,
                         !.threw = TRUE]
        ELSE [tableBody |-> rows.tableBody,
              labels |-> lbls,
              datasets |-> PushDataset(acc.datasets, d.drug, d.total_spending),
              drugFilter |-> AppendOption(acc.drugFilter, d.drug),
              totalSpendingData |->
                  Aggregate(acc.totalSpendingData, d.drug, d.total_spending),
              threw |-> FALSE]

(* Object.keys(data).forEach: in key order, abandoned at the first throw *)
RECURSIVE ForEachDrug(_, _, _)
ForEachDrug(d, index, acc) ==
    IF index > Len(d) \/ acc.threw
    THEN acc
    ELSE ForEachDrug(d, index + 1, ProcessDrug(acc, d[index], index))

(* the handler's locals and the DOM it appends to, before the loop; the    *)
(* locals are lost when the handler throws                                 *)
Transform(d) ==
    ForEachDrug(d, 1, [tableBody |-> tableBody, labels |-> <<>>,
                       datasets |-> <<>>, drugFilter |-> drugFilter,
                       totalSpendingData |-> <<>>, threw |-> FALSE])

(* part_000: data[drug].years.forEach((year, index) => ...) *)
RECURSIVE LegacyPopulateTable(_, _, _)
LegacyPopulateTable(d, i, body) ==
    IF i > Len(d.years)
    THEN [tableBody |-> body, threw |-> FALSE]
    ELSE IF ToFixedThrows(d.total_spending, i) \/ ToFixedThrows(d.avg_spending, i)
         THEN [tableBody |-> body, threw |-> TRUE]
         ELSE LegacyPopulateTable(d, i + 1,
                  Append(body, NewRow(d.drug, d.years[i],
                                      d.total_spending[i], d.avg_spending[i])))

(* part_000: Object.keys(data).forEach(drug => ...) *)
RECURSIVE LegacyForEachDrug(_, _, _)
LegacyForEachDrug(d, index, acc) ==
    IF index > Len(d) \/ acc.threw
    THEN acc
    ELSE LegacyForEachDrug(d, index + 1,
                           LegacyPopulateTable(d[index], 1, acc.tableBody))

(* part_000: .catch(error => console.error("Error fetching predictions:", error)) *)
LegacyCatch(error) ==
    /\ console' = Append(console, [message |-> "Error fetching predictions:",
                                   error |-> error])
    /\ pc' = "failed"
    /\ UNCHANGED <<requests, uncaught>>

(* a catch handler that logs and then issues the request again *)
CatchAndRetry(error) ==
    /\ console' = Append(console, [message |-> "Error fetching data:",
                                   error |-> error])
    /\ pc' = "fetch"
    /\ requests' = requests + 1
    /\ UNCHANGED uncaught

(* .catch(error => console.error("Error fetching data:", error)): the error *)
(* is logged and the chain settles fulfilled; nothing is requested again    *)
Catch(error) ==
    /\ console' = Append(console, [message |-> "Error fetching data:",
                                   error |-> error])
    /\ pc' = "failed"
    /\ UNCHANGED <<requests, uncaught>>

---------------------------------------------------------------------------
(* new Chart(ctx, {type, data: {labels, datasets}, ...}) *)

RenderLineChart(lbls, dsets) == [type |-> "line", labels |-> lbls, datasets |-> dsets]

RenderBarChart(lbls, dsets) == [type |-> "bar", labels |-> lbls, datasets |-> dsets]

(* labels: Object.keys(data), datasets[0].data: Object.values(data) *)
RenderPieChart(totals) ==
    [type |-> "pie",
     labels |-> [i \in 1..Len(totals) |-> totals[i].key],
     datasets |-> <<[data |-> [i \in 1..Len(totals) |-> totals[i].value]]>>]

(* a filter that removes the rows it should hide *)
FilterTableRemoves(rows, selectedDrug) ==
    LET Keep(row) == selectedDrug = "all" \/ row.cells[1] = selectedDrug
    IN  SelectSeq(rows, Keep)

(* row.style.display = (selectedDrug === "all" || drugName === selectedDrug) *)
(*                     ? "" : "none", for every row                          *)
FilterTable(rows, selectedDrug) ==
    [i \in 1..Len(rows) |->
        [rows[i] EXCEPT !.display =
            IF selectedDrug = "all" \/ rows[i].cells[1] = selectedDrug
            THEN "" ELSE "none"]]

---------------------------------------------------------------------------
(* State after the page script has run to its end: the one request is in   *)
(* flight, and script.js has hidden the chart container (part_000 never    *)
(* assigns its style).                                                     *)

(* the page without the initial chartContainer.style.display = "none" *)
ChartContainerShown == "block"

ChartContainerInitial == "none"

Init ==
    /\ script \in {Frontend, Legacy}
    /\ pc = "fetch"
    /\ requests = 1
    /\ data = NoData
    /\ tableBody = <<>>
    /\ drugFilter = <<>>
    /\ selected = "all"
    /\ listeners = {}
    /\ chartContainer = IF script = Frontend THEN ChartContainerInitial ELSE ""
    /\ labels = <<>>
    /\ datasets = <<>>
    /\ totalSpendingData = <<>>
    /\ spendingChart = Undefined
    /\ barChart = Undefined
    /\ pieChart = Undefined
    /\ console = <<>>
    /\ uncaught = 0
    /\ clicks = 0

(* fetch(API_URL) rejects (network error): both then-handlers are skipped *)
FetchReject ==
    /\ script = Frontend
    /\ pc = "fetch"
    /\ Catch("NetworkError")
    /\ UNCHANGED <<script, data, tableBody, drugFilter, selected, listeners,
                   chartContainer, labels, datasets, totalSpendingData,
                   spendingChart, barChart, pieChart, clicks>>

(* fetch(API_URL) fulfils: response => response.json() starts reading *)
FetchResolve ==
    /\ script = Frontend
    /\ pc = "fetch"
    /\ pc' = "json"
    /\ UNCHANGED <<script, requests, data, tableBody, drugFilter, selected, listeners,
                   chartContainer, labels, datasets, totalSpendingData,
                   spendingChart, barChart, pieChart, console, uncaught, clicks>>

(* response.json() rejects: the body is not JSON *)
JsonReject ==
    /\ script = Frontend
    /\ pc = "json"
    /\ Catch("SyntaxError")
    /\ UNCHANGED <<script, data, tableBody, drugFilter, selected, listeners,
                   chartContainer, labels, datasets, totalSpendingData,
                   spendingChart, barChart, pieChart, clicks>>

(* response.json() fulfils with d: the success handler runs to its end, or *)
(* throws part-way, and then the chain's catch handler runs                *)
JsonResolve(d) ==
    LET r == Transform(d) IN
    /\ script = Frontend
    /\ pc = "json"
    /\ data' = <<d>>
    /\ tableBody' = r.tableBody
    /\ drugFilter' = r.drugFilter
    /\ IF r.threw
       THEN /\ Catch("TypeError")
            /\ UNCHANGED <<labels, datasets, totalSpendingData, listeners>>
       ELSE /\ pc' = "loaded"
            /\ labels' = r.labels
            /\ datasets' = r.datasets
            /\ totalSpendingData' = r.totalSpendingData
            /\ listeners' = {"click", "change"}
            /\ UNCHANGED <<requests, console, uncaught>>
    /\ UNCHANGED <<script, selected, chartContainer, spendingChart, barChart,
                   pieChart, clicks>>

(* part_000: fetch("http://127.0.0.1:5000/predict") rejects *)
LegacyFetchReject ==
    /\ script = Legacy
    /\ pc = "fetch"
    /\ LegacyCatch("NetworkError")
    /\ UNCHANGED <<script, data, tableBody, drugFilter, selected, listeners,
                   chartContainer, labels, datasets, totalSpendingData,
                   spendingChart, barChart, pieChart, clicks>>

(* part_000: fetch fulfils and response.json() starts reading *)
LegacyFetchResolve ==
    /\ script = Legacy
    /\ pc = "fetch"
    /\ pc' = "json"
    /\ UNCHANGED <<script, requests, data, tableBody, drugFilter, selected,
                   listeners, chartContainer, labels, datasets,
                   totalSpendingData, spendingChart, barChart, pieChart,
                   console, uncaught, clicks>>

(* part_000: response.json() rejects *)
LegacyJsonReject ==
    /\ script = Legacy
    /\ pc = "json"
    /\ LegacyCatch("SyntaxError")
    /\ UNCHANGED <<script, data, tableBody, drugFilter, selected, listeners,
                   chartContainer, labels, datasets, totalSpendingData,
                   spendingChart, barChart, pieChart, clicks>>

(* part_000: response.json() fulfils with d; the rows are appended, or the *)
(* handler throws part-way and the catch handler runs                      *)
LegacyJsonResolve(d) ==
    LET r == LegacyForEachDrug(d, 1, [tableBody |-> tableBody, threw |-> FALSE]) IN
    /\ script = Legacy
    /\ pc = "json"
    /\ data' = <<d>>
    /\ tableBody' = r.tableBody
    /\ IF r.threw
       THEN LegacyCatch("TypeError")
       ELSE pc' = "loaded" /\ UNCHANGED <<requests, console, uncaught>>
    /\ UNCHANGED <<script, drugFilter, selected, listeners, chartContainer,
                   labels, datasets, totalSpendingData, spendingChart,
                   barChart, pieChart, clicks>>

(* a click on #show-charts; the listener exists only after a completed load *)
ShowChartsButtonClick ==
    /\ clicks < MaxClicks
    /\ clicks' = clicks + 1
    /\ IF "click" \in listeners
       THEN /\ chartContainer' = "block"
            /\ spendingChart' = RenderLineChart(labels, datasets)
            /\ barChart' = RenderBarChart(labels, datasets)
            /\ pieChart' = RenderPieChart(totalSpendingData)
       ELSE UNCHANGED <<chartContainer, spendingChart, barChart, pieChart>>
    /\ UNCHANGED <<script, pc, requests, data, tableBody, drugFilter,
                   selected, listeners, labels, datasets, totalSpendingData,
                   console, uncaught>>

(* the values the <select> can take: the page's "all" and the appended options *)
Selectable == {"all"} \cup {drugFilter[i].value : i \in 1..Len(drugFilter)}

(* a change listener that reloads: the request is issued again *)
DrugFilterChangeRefetches(value) ==
    /\ value \in Selectable
    /\ selected' = value
    /\ tableBody' = IF "change" \in listeners
                    THEN FilterTable(tableBody, value)
                    ELSE tableBody
    /\ pc' = IF "change" \in listeners THEN "fetch" ELSE pc
    /\ requests' = IF "change" \in listeners THEN requests + 1 ELSE requests
    /\ UNCHANGED <<script, data, drugFilter, listeners, chartContainer,
                   labels, datasets, totalSpendingData, spendingChart,
                   barChart, pieChart, console, uncaught, clicks>>

(* the user picks value in #drug-filter; the change listener, when it has *)
(* been registered, calls filterTable(this.value)                         *)
DrugFilterChange(value) ==
    /\ value \in Selectable
    /\ selected' = value
    /\ tableBody' = IF "change" \in listeners
                    THEN FilterTable(tableBody, value)
                    ELSE tableBody
    /\ UNCHANGED <<script, pc, requests, data, drugFilter, listeners,
                   chartContainer, labels, datasets, totalSpendingData,
                   spendingChart, barChart, pieChart, console, uncaught, clicks>>

Next ==
    \/ FetchReject
    \/ FetchResolve
    \/ JsonReject
    \/ pc = "json" /\ \E d \in Responses : JsonResolve(d)
    \/ LegacyFetchReject
    \/ LegacyFetchResolve
    \/ LegacyJsonReject
    \/ pc = "json" /\ \E d \in Responses : LegacyJsonResolve(d)
    \/ ShowChartsButtonClick
    \/ \E value \in DrugNames \cup {"all"} : DrugFilterChange(value)

Spec == Init /\ [][Next]_vars

---------------------------------------------------------------------------
(* Vocabulary of the properties *)

Parsed == data # NoData

(* the view of script.js has completed its load *)
Loaded == script = Frontend /\ pc = "loaded"

Body == data[1]

Keys(d) == [k \in 1..Len(d) |-> d[k].drug]

YearPairs(d) ==
    UNION { { <<k, i>> : i \in 1..Len(d[k].years) } : k \in 1..Len(d) }

RECURSIVE SeqSum(_)
SeqSum(s) == IF Len(s) = 0 THEN 0 ELSE s[Len(s)] + SeqSum(SubSeq(s, 1, Len(s) - 1))

Short(d) ==
    \E k \in 1..Len(d) : \/ Len(d[k].total_spending) < Len(d[k].years)
                         \/ Len(d[k].avg_spending) < Len(d[k].years)

Lifecycle ==
    CASE pc \in {"fetch", "json"} -> "Loading"
      [] pc = "loaded" -> "Loaded"
      [] OTHER -> "FetchFailed"

ChartsRendered ==
    spendingChart # Undefined \/ barChart # Undefined \/ pieChart # Undefined

RowsOf(drug) == { j \in 1..Len(tableBody) : tableBody[j].cells[1] = drug }

---------------------------------------------------------------------------
(* C1: after a successful load of a well-formed response the table holds   *)
(* as many rows as the drugs have years in total, exactly one row for each *)
(* (drug, year index) pair, carrying that year's formatted amounts; an     *)
(* empty response gives an empty table.                                    *)
C1_RowPerDrugYear ==
    (pc = "loaded" /\ WellFormed(Body)) =>
        /\ Len(tableBody) = Cardinality(YearPairs(Body))
        /\ \A p \in YearPairs(Body) :
              LET d == Body[p[1]] IN
              Cardinality({ j \in RowsOf(d.drug) :
                              tableBody[j].cells =
                                <<d.drug, ToString(d.years[p[2]]),
                                  "$" \o ToFixed2(d.total_spending[p[2]]),
                                  "$" \o ToFixed2(d.avg_spending[p[2]])>> }) = 1

C1_Witness ==
    /\ pc = "loaded" /\ WellFormed(Body)
    /\ Len(Body) = 2
    /\ Len(Body[1].years) = 2 /\ Len(Body[2].years) = 1
    /\ Len(tableBody) = 3

(* C2: every filter event in the Loaded state leaves the rows visible as   *)
(* its selection says: all of them for "all", exactly the rows of drug D   *)
(* for a drug key D of the response.                                       *)
VisibleAsSelected ==
    /\ selected = "all" => \A j \in 1..Len(tableBody) : tableBody[j].display = ""
    /\ \A k \in 1..Len(Body) :
          selected = Body[k].drug =>
              \A j \in 1..Len(tableBody) :
                  tableBody[j].display = "" <=> j \in RowsOf(selected)

C2_LastSelectionDecides ==
    [][(Loaded /\ clicks' = clicks) => VisibleAsSelected']_vars

(* C3: in the Loaded state, whatever events followed the load, the options *)
(* appended to the dropdown are the drug keys of the response, once each,  *)
(* in key order.                                                           *)
C3_OptionsAreDrugKeys ==
    Loaded =>
        /\ Len(drugFilter) = Len(Body)
        /\ \A k \in 1..Len(Body) :
              /\ drugFilter[k].value = Body[k].drug
              /\ drugFilter[k].textContent = Body[k].drug
        /\ \A k \in 1..Len(Body) :
              Cardinality({ i \in 1..Len(drugFilter) :
                              drugFilter[i].value = Body[k].drug }) = 1

C3_Witness ==
    /\ Loaded /\ Len(Body) = 2 /\ Len(drugFilter) = 2
    /\ clicks = MaxClicks /\ selected = Body[2].drug

(* C4: when the chain settles without a parsed body (fetch rejected or the *)
(* body was not JSON) the view is failed, table and dropdown are empty,    *)
(* the error was logged exactly once, nothing escaped and only the one     *)
(* request was ever issued.                                                *)
C4_FetchOrParseFailure ==
    /\ requests = 1
    /\ (Lifecycle # "Loading" /\ ~Parsed) =>
          /\ pc = "failed"
          /\ tableBody = <<>>
          /\ drugFilter = <<>>
          /\ Len(console) = 1
          /\ console[1].error \in {"NetworkError", "SyntaxError"}
          /\ uncaught = 0

C4_Witness ==
    /\ script = Frontend /\ pc = "failed" /\ ~Parsed /\ console[1].error = "SyntaxError"
    /\ clicks = MaxClicks

(* C5: the chart container is visible, and charts exist, only in the       *)
(* Loaded state after a click; it becomes visible only by a click taken in *)
(* the Loaded state, a click in any other state changes nothing but the    *)
(* click count, and once visible it stays visible.                         *)
C5_State ==
    /\ script = Frontend =>
          ((chartContainer # "none" \/ ChartsRendered) =>
              pc = "loaded" /\ clicks >= 1 /\ chartContainer = "block")
    /\ script = Legacy => chartContainer # "block" /\ ~ChartsRendered

C5_Step ==
    /\ (chartContainer # "block" /\ chartContainer' = "block") =>
           Loaded /\ clicks' = clicks + 1
    /\ chartContainer = "block" => chartContainer' = "block"
    /\ (~Loaded /\ clicks' # clicks) =>
           UNCHANGED <<script, pc, requests, data, tableBody, drugFilter, selected,
                       listeners, chartContainer, labels, datasets,
                       totalSpendingData, spendingChart, barChart, pieChart,
                       console, uncaught>>

C5_ChartsOnlyAfterClick == [](C5_State) /\ [][C5_Step]_vars

C5_Witness ==
    /\ Loaded /\ chartContainer = "block" /\ clicks = 1
    /\ spendingChart.type = "line"

(* C6: the view starts in Loading with its one request issued; the         *)
(* lifecycle changes only from Loading, to Loaded or FetchFailed, and      *)
(* never by a click or a filter event; no further request is issued; and   *)
(* while it is Loading the table and the dropdown are empty.               *)
C6_State ==
    /\ requests = 1
    /\ Lifecycle = "Loading" => tableBody = <<>> /\ drugFilter = <<>>

C6_Step ==
    /\ Lifecycle' # Lifecycle =>
          Lifecycle = "Loading" /\ Lifecycle' \in {"Loaded", "FetchFailed"}
    /\ (clicks' # clicks \/ selected' # selected) => Lifecycle' = Lifecycle

C6_Lifecycle ==
    /\ Lifecycle = "Loading" /\ requests = 1
    /\ [](C6_State)
    /\ [][C6_Step]_vars

C6_Witness ==
    /\ script = Frontend /\ Lifecycle = "Loaded" /\ clicks = MaxClicks /\ selected # "all"
    /\ Len(tableBody) > 0

(* C7 as stated: a response with a total_spending or avg_spending shorter  *)
(* than its years makes the load fail with an error that the chain's catch *)
(* handler does not receive.                                               *)
C7_ErrorEscapesHandler ==
    (script = Frontend /\ Parsed /\ Short(Body)) =>
        (console = <<>> /\ uncaught >= 1)

(* C7 amended: such a response makes the success handler throw a TypeError *)
(* that the same catch handler receives: the view is failed, the error is  *)
(* logged once, nothing escapes and no listener is registered.             *)
C7_ErrorCaughtByHandler ==
    (Parsed /\ Short(Body)) =>
        /\ pc = "failed"
        /\ Len(console) = 1
        /\ console[1].error = "TypeError"
        /\ uncaught = 0
        /\ listeners = {}

C7_Witness ==
    /\ script = Frontend /\ Parsed /\ Short(Body) /\ pc = "failed"
    /\ Len(Body) = 2
    /\ Len(Body[2].avg_spending) < Len(Body[2].years)
    /\ Len(tableBody) > Len(Body[1].years)

(* C8: in the Loaded state the pie aggregate has one entry per drug key,   *)
(* in key order, holding the sum of that drug's total_spending (0 when it  *)
(* is empty), and a rendered pie chart shows exactly these keys and sums,  *)
(* whatever filter or click events came before.                            *)
C8_PieAggregate ==
    Loaded =>
        /\ Len(totalSpendingData) = Len(Body)
        /\ \A k \in 1..Len(Body) :
              /\ totalSpendingData[k].key = Body[k].drug
              /\ totalSpendingData[k].value = SeqSum(Body[k].total_spending)
        /\ pieChart # Undefined =>
              /\ pieChart.labels = Keys(Body)
              /\ pieChart.datasets[1].data =
                    [k \in 1..Len(Body) |-> SeqSum(Body[k].total_spending)]

C8_Witness ==
    /\ Loaded /\ pieChart # Undefined /\ clicks = MaxClicks
    /\ selected # "all"
    /\ Len(Body) = 2
    /\ Len(Body[1].total_spending) = 2 /\ Len(Body[2].total_spending) = 0

(* C9: a filter event in the Loaded state changes nothing but the rows'    *)
(* visibility (same rows, same cells, same order; no request; options,     *)
(* chart data, charts and container untouched), and filtering again with   *)
(* the same selection changes nothing at all.                              *)
C9_Step ==
    (Loaded /\ clicks' = clicks) =>
        /\ Len(tableBody') = Len(tableBody)
        /\ \A j \in 1..Len(tableBody) : tableBody'[j].cells = tableBody[j].cells
        /\ FilterTable(tableBody', selected') = tableBody'
        /\ UNCHANGED <<script, pc, requests, data, drugFilter, listeners,
                       chartContainer, labels, datasets, totalSpendingData,
                       spendingChart, barChart, pieChart, console, uncaught>>

C9_FilterOnlyTogglesVisibility == [][C9_Step]_vars

C9_Witness ==
    /\ Loaded /\ selected # "all"
    /\ \E i, j \in 1..Len(tableBody) :
          tableBody[i].display = "none" /\ tableBody[j].display = ""
    /\ chartContainer = "block"

(* C10: in the Loaded state the chart labels are the years of the first    *)
(* drug in key order, also when a later drug has other years; every        *)
(* dataset carries its own drug's name and whole total_spending; the       *)
(* table still has one row per year of every drug; a rendered line or bar  *)
(* chart shows these labels and datasets.                                  *)
C10_LabelsFromFirstDrug ==
    (Loaded /\ Len(Body) >= 1) =>
        /\ labels = Body[1].years
        /\ Len(datasets) = Len(Body)
        /\ \A k \in 1..Len(Body) :
              /\ datasets[k].label = Body[k].drug
              /\ datasets[k].data = Body[k].total_spending
        /\ Len(tableBody) = Cardinality(YearPairs(Body))
        /\ spendingChart # Undefined =>
              /\ spendingChart.labels = Body[1].years
              /\ \A k \in 1..Len(Body) :
                    spendingChart.datasets[k].data = Body[k].total_spending
        /\ barChart # Undefined =>
              /\ barChart.labels = Body[1].years
              /\ \A k \in 1..Len(Body) :
                    barChart.datasets[k].data = Body[k].total_spending

C10_Witness ==
    /\ Loaded /\ Len(Body) = 2
    /\ Len(Body[1].years) = 1 /\ Len(Body[2].years) = 2
    /\ Len(tableBody) = 3
    /\ spendingChart # Undefined /\ barChart # Undefined
    /\ labels # Body[2].years

====
